---- MODULE Spec2Model ----
(***************************************************************************)
(* Model of the two benchmark scripts of performance/:                     *)
(*   hyperfine-commits.py          (the Runner)                            *)
(*   transform-benchmark-data.py   (the Transformer)                       *)
(* Strings that the scripts take apart or build character by character     *)
(* (command strings, paths, revision ids) are sequences of one-character   *)
(* strings; opaque strings (option names, log messages) are TLA+ strings.  *)
(* A JSON object / Python dict is a function from field names to values.   *)
(***************************************************************************)
EXTENDS Integers, Sequences, FiniteSets, TLC

VARIABLES
    \* ---- Runner (hyperfine-commits.py)
    args,            \* parsed command line: input_file, executables_dir, output_file
    listing,         \* what os.listdir(executables_dir) returns, in the OS's order
    hyperfine_args,  \* the argument list being built
    calls,           \* argument lists handed to subprocess.check_call so far
    returncode,      \* exit code of the external tool (-1: not run)
    exitStatus,      \* exit code of the Runner process (-1: still running)
    rpc,             \* position of the Runner: "start", "call", "done"
    \* ---- Transformer (transform-benchmark-data.py)
    history,         \* commits reachable from master, in walk order
    stdin,           \* the JSON document on standard input
    commit2message,  \* dict revision id -> log message
    input,           \* the loaded JSON document
    output,          \* list of flattened records
    stdout,          \* JSON documents written to standard output
    row_i,           \* index of `row` in input["results"]
    time_j,          \* index of `time` in row["times"]
    num,             \* group 2 of the match of the current row
    commit,          \* group 3 of the match of the current row
    error,           \* uncaught exception that ended the Transformer ("" if none)
    tpc              \* position of the Transformer

runnerVars == <<args, listing, hyperfine_args, calls, returncode, exitStatus, rpc>>
transVars == <<history, stdin, commit2message, input, output, stdout,
               row_i, time_j, num, commit, error, tpc>>
vars == <<runnerVars, transVars>>

-----------------------------------------------------------------------------
(* Bounds of the model *)

MaxRows == 2
MaxTimes == 2
MaxEntries == 2
MaxExit == 2

-----------------------------------------------------------------------------
(* Characters and strings *)

Digits == {"0", "1", "2", "3", "4", "5", "6", "7", "8", "9"}
HexChars == Digits \cup {"a", "b", "c", "d", "e", "f"}

\* The characters used, in ascending code point order.
CharOrder == <<" ", "-", "/", "0", "1", "2", "3", "4", "5", "6", "7", "8", "9",
               "<", ">", "a", "b", "c", "d", "e", "f", "i", "l", "m", "n", "o",
               "t", "u", "v", "x", "y">>

CharRank(c) == CHOOSE k \in 1..Len(CharOrder) : CharOrder[k] = c

\* Python's str comparison: code point by code point, a proper prefix is smaller.
StrLess(a, b) ==
    \E k \in 1..Len(b) :
        /\ k <= Len(a) + 1
        /\ \A x \in 1..(k - 1) : a[x] = b[x]
        /\ \/ k = Len(a) + 1
           \/ CharRank(a[k]) < CharRank(b[k])

Slice(s, from, to) == [k \in 1..(to - from + 1) |-> s[from + k - 1]]

AllIn(s, from, to, set) == \A k \in from..to : s[k] \in set

-----------------------------------------------------------------------------
(* re.match("([^/]+/)?([0-9]+)-([0-9a-f]+) .*", s)                          *)

\* ([0-9]+)-([0-9a-f]+) followed by a space, starting at position p: the
\* pairs <<n, h>> of group lengths for which the rest of the pattern matches
\* (the trailing .* matches whatever follows, re.match does not anchor the end).
LabelAt(s, p) ==
    { nh \in (1..Len(s)) \X (1..Len(s)) :
        /\ p + nh[1] + nh[2] <= Len(s)
        /\ AllIn(s, p, p + nh[1] - 1, Digits)
        /\ s[p + nh[1]] = "-"
        /\ AllIn(s, p + nh[1] + 1, p + nh[1] + nh[2], HexChars)
        /\ s[p + nh[1] + nh[2] + 1] = " " }

\* Greedy quantifiers: the longest [0-9]+ first, then the longest [0-9a-f]+.
Greedy(pairs) ==
    CHOOSE nh \in pairs :
        \A other \in pairs :
            \/ other[1] < nh[1]
            \/ other[1] = nh[1] /\ other[2] <= nh[2]

\* Lengths of a prefix matching [^/]+/ (the slash included).
DirLens(s) ==
    { d \in 2..Len(s) : s[d] = "/" /\ \A k \in 1..(d - 1) : s[k] # "/" }

NoMatch == [matched |-> FALSE, dir |-> <<>>, num |-> <<>>, commit |-> <<>>]

Groups(s, d, nh) ==
    [matched |-> TRUE,
     dir     |-> Slice(s, 1, d),
     num     |-> Slice(s, d + 1, d + nh[1]),
     commit  |-> Slice(s, d + nh[1] + 2, d + nh[1] + 1 + nh[2])]

\* The optional group ( ... )? is greedy: the match with group 1 present is
\* tried first, the match without it only when that fails. Anchored at the
\* start of s. dir = <<>> stands for an unmatched group 1 (None).
ReMatch(s) ==
    LET withDir == { d \in DirLens(s) : LabelAt(s, d + 1) # {} }
    IN  IF withDir # {}
        THEN LET d == CHOOSE x \in withDir : \A y \in withDir : y <= x
             IN  Groups(s, d, Greedy(LabelAt(s, d + 1)))
        ELSE IF LabelAt(s, 1) # {}
        THEN Groups(s, 0, Greedy(LabelAt(s, 1)))
        ELSE NoMatch

-----------------------------------------------------------------------------
(* Python dict operations *)

SetKey(d, k, v) == [x \in DOMAIN d \cup {k} |-> IF x = k THEN v ELSE d[x]]
DelKey(d, k) == [x \in DOMAIN d \ {k} |-> d[x]]

\* { commit.id.hex: commit.message for commit in repo.walk(...) }
Commit2Message(walk) ==
    [id \in { walk[k].id : k \in 1..Len(walk) } |->
        LET last == CHOOSE k \in 1..Len(walk) :
                        /\ walk[k].id = id
                        /\ \A l \in 1..Len(walk) : walk[l].id = id => l <= k
        IN  walk[last].message]

\* commit2message.get(commit) without the default: None, dumped as null.
DictGet_noDefault(d, key) == IF key \in DOMAIN d THEN d[key] ELSE "null"

\* commit2message.get(commit, "")
DictGet(d, key) == IF key \in DOMAIN d THEN d[key] ELSE ""

\* f"{num}-{commit}"
CommitLabel(n, c) == n \o <<"-">> \o c

\* Lines 19-23 without the copy: output_row is the row itself.
FlattenRow_noCopy(row, n, c, time, c2m) ==
    LET r1 == SetKey(row, "commit", CommitLabel(n, c))
        r2 == SetKey(r1, "message", DictGet(c2m, c))
        r3 == DelKey(r2, "times")
        r4 == SetKey(r3, "time", time)
    IN  [output_row |-> r4, row |-> r4]

\* Lines 19-23: output_row is a copy of row, so row is left as it was.
FlattenRow(row, n, c, time, c2m) ==
    LET r0 == row
        r1 == SetKey(r0, "commit", CommitLabel(n, c))
        r2 == SetKey(r1, "message", DictGet(c2m, c))
        r3 == DelKey(r2, "times")
        r4 == SetKey(r3, "time", time)
    IN  [output_row |-> r4, row |-> row]

\* output = [output_row]
OutputAppend_replace(out, rec) == <<rec>>

\* output.insert(0, output_row)
OutputAppend_prepend(out, rec) == <<rec>> \o out

\* output.append(output_row)
OutputAppend(out, rec) == Append(out, rec)

-----------------------------------------------------------------------------
(* Inputs of the Transformer *)

CmdWithDir == <<"b", "/", "0", "3", "-", "a", " ", "x">>          \* "b/03-a x"
CmdNoDir == <<"7", "-", "c", " ", "x">>                           \* "7-c x"
CmdNoLabel == <<"m", "y", "t", "o", "o", "l">>                    \* "mytool"
CmdSlashInTail ==
    <<"0", "3", "-", "a", " ", "<", "/", "7", "-", "c", " ", "x">> \* "03-a </7-c x"

Commands == {CmdWithDir, CmdNoDir, CmdNoLabel, CmdSlashInTail}

\* A times list of n samples (milliseconds), different for every n.
Samples(n) == [k \in 1..n |-> 10 * n + k]

\* Result entries as hyperfine writes them: command, times and statistics
\* (one statistic, mean, stands for all of them); also entries without times.
PlainRows ==
    { [command |-> c, mean |-> 5, times |-> Samples(n)] :
        c \in Commands, n \in 0..MaxTimes }
    \cup { [command |-> c, mean |-> 5] : c \in Commands }

\* An entry that already has fields named like the ones the Transformer adds,
\* and an entry without a command.
OddRows ==
    { [command |-> CmdWithDir, mean |-> 5, times |-> Samples(MaxTimes),
       time |-> 9, commit |-> <<"x">>, message |-> "old"],
      [mean |-> 5, times |-> Samples(1)] }

Rows == PlainRows \cup OddRows

RowSeqs == UNION { [1..n -> Rows] : n \in 0..MaxRows }

\* Histories reachable from master: none, or two commits (ids are full hex ids,
\* shortened here to one character).
Histories ==
    { <<>>,
      << [id |-> <<"a">>, message |-> "Fix the pager\n"],
         [id |-> <<"f">>, message |-> "Initial commit\n"] >> }

-----------------------------------------------------------------------------
(* The Transformer: transform-benchmark-data.py *)

TransformerIdle ==
    /\ history = <<>>
    /\ stdin = [results |-> <<>>]
    /\ commit2message = <<>>
    /\ input = [results |-> <<>>]
    /\ output = <<>>
    /\ stdout = <<>>
    /\ row_i = 0
    /\ time_j = 0
    /\ num = <<>>
    /\ commit = <<>>
    /\ error = ""
    /\ tpc = "idle"

TransformerInit ==
    /\ history \in Histories
    /\ stdin \in { [results |-> rs] : rs \in RowSeqs }
    /\ commit2message = <<>>
    /\ input = [results |-> <<>>]
    /\ output = <<>>
    /\ stdout = <<>>
    /\ row_i = 0
    /\ time_j = 0
    /\ num = <<>>
    /\ commit = <<>>
    /\ error = ""
    /\ tpc = "repo"

\* An uncaught exception ends the process; nothing else changes.
Raise(exc) ==
    /\ error' = exc
    /\ tpc' = "failed"

\* Lines 8-11: walk the history of master and build the dict.
OpenRepo ==
    /\ tpc = "repo"
    /\ commit2message' = Commit2Message(history)
    /\ tpc' = "load"
    /\ UNCHANGED <<history, stdin, input, output, stdout, row_i, time_j,
                   num, commit, error>>
    /\ UNCHANGED runnerVars

\* Lines 13-15: input = json.load(sys.stdin); output = [].
LoadInput ==
    /\ tpc = "load"
    /\ input' = stdin
    /\ output' = <<>>
    /\ row_i' = 1
    /\ tpc' = "row"
    /\ UNCHANGED <<history, stdin, commit2message, stdout, time_j, num,
                   commit, error>>
    /\ UNCHANGED runnerVars

\* Lines 16-17 with "continue" on a command that does not match.
MatchRow_skip ==
    /\ tpc = "row"
    /\ IF row_i > Len(input.results)
       THEN /\ tpc' = "dump"
            /\ UNCHANGED <<row_i, time_j, num, commit, error>>
       ELSE LET row == input.results[row_i]
            IN  IF "command" \notin DOMAIN row
                THEN Raise("KeyError") /\ UNCHANGED <<row_i, time_j, num, commit>>
                ELSE LET m == ReMatch(row["command"])
                     IN  IF ~m.matched
                         THEN /\ row_i' = row_i + 1
                              /\ UNCHANGED <<tpc, time_j, num, commit, error>>
                         ELSE /\ num' = m.num
                              /\ commit' = m.commit
                              /\ time_j' = 1
                              /\ tpc' = "time"
                              /\ UNCHANGED <<row_i, error>>
    /\ UNCHANGED <<history, stdin, commit2message, input, output, stdout>>
    /\ UNCHANGED runnerVars

\* Lines 16-17: the next row of input["results"], or the end of the loop;
\* re.match(...) returns None on a command that does not match and
\* None.groups() raises AttributeError.
MatchRow ==
    /\ tpc = "row"
    /\ IF row_i > Len(input.results)
       THEN /\ tpc' = "dump"
            /\ UNCHANGED <<row_i, time_j, num, commit, error>>
       ELSE LET row == input.results[row_i]
            IN  IF "command" \notin DOMAIN row
                THEN Raise("KeyError") /\ UNCHANGED <<row_i, time_j, num, commit>>
                ELSE LET m == ReMatch(row["command"])
                     IN  IF ~m.matched
                         THEN /\ Raise("AttributeError")
                              /\ UNCHANGED <<row_i, time_j, num, commit>>
                         ELSE /\ num' = m.num
                              /\ commit' = m.commit
                              /\ time_j' = 1
                              /\ tpc' = "time"
                              /\ UNCHANGED <<row_i, error>>
    /\ UNCHANGED <<history, stdin, commit2message, input, output, stdout>>
    /\ UNCHANGED runnerVars

\* Lines 18-25 with each record written out as soon as it is built.
EmitTime_streaming ==
    /\ tpc = "time"
    /\ LET row == input.results[row_i]
       IN  IF "times" \notin DOMAIN row
           THEN /\ Raise("KeyError")
                /\ UNCHANGED <<input, output, stdout, row_i, time_j>>
           ELSE IF time_j > Len(row["times"])
           THEN /\ row_i' = row_i + 1
                /\ tpc' = "row"
                /\ UNCHANGED <<input, output, stdout, time_j, error>>
           ELSE LET f == FlattenRow(row, num, commit, row["times"][time_j],
                                    commit2message)
                IN  /\ output' = OutputAppend(output, f.output_row)
                    /\ stdout' = Append(stdout, <<f.output_row>>)
                    /\ input' = [input EXCEPT !.results[row_i] = f.row]
                    /\ time_j' = time_j + 1
                    /\ UNCHANGED <<row_i, tpc, error>>
    /\ UNCHANGED <<history, stdin, commit2message, num, commit>>
    /\ UNCHANGED runnerVars

\* Lines 18-25: row["times"] raises KeyError when the field is missing;
\* otherwise one record per sample, or the end of the inner loop.
EmitTime ==
    /\ tpc = "time"
    /\ LET row == input.results[row_i]
       IN  IF "times" \notin DOMAIN row
           THEN /\ Raise("KeyError")
                /\ UNCHANGED <<input, output, row_i, time_j>>
           ELSE IF time_j > Len(row["times"])
           THEN /\ row_i' = row_i + 1
                /\ tpc' = "row"
                /\ UNCHANGED <<input, output, time_j, error>>
           ELSE LET f == FlattenRow(row, num, commit, row["times"][time_j],
                                    commit2message)
                IN  /\ output' = OutputAppend(output, f.output_row)
                    /\ input' = [input EXCEPT !.results[row_i] = f.row]
                    /\ time_j' = time_j + 1
                    /\ UNCHANGED <<row_i, tpc, error>>
    /\ UNCHANGED <<history, stdin, commit2message, stdout, num, commit>>
    /\ UNCHANGED runnerVars

\* Line 27: json.dump(output, sys.stdout, indent=2).
Dump ==
    /\ tpc = "dump"
    /\ stdout' = Append(stdout, output)
    /\ tpc' = "done"
    /\ UNCHANGED <<history, stdin, commit2message, input, output, row_i,
                   time_j, num, commit, error>>
    /\ UNCHANGED runnerVars

-----------------------------------------------------------------------------
(* Inputs of the Runner *)

\* executables_dir arguments: "b", "a/b", "/b", "b/"
ExecutableDirs ==
    { <<"b">>, <<"a", "/", "b">>, <<"/", "b">>, <<"b", "/">> }

\* Names of executables, each <sequence>-<revision>: "03-a", "10-b", "7-c"
ExecutableNames ==
    { <<"0", "3", "-", "a">>, <<"1", "0", "-", "b">>, <<"7", "-", "c">> }

\* input_file arguments: "in", "d/1-a"
InputFiles == { <<"i", "n">>, <<"d", "/", "1", "-", "a">> }

\* os.listdir: the entries of a directory, each once, in arbitrary order.
Listings ==
    { l \in UNION { [1..n -> ExecutableNames] : n \in 0..MaxEntries } :
        \A x, y \in 1..Len(l) : x # y => l[x] # l[y] }

\* Exit codes of the external tool.
ToolExitCodes == 0..MaxExit

-----------------------------------------------------------------------------
(* The Runner: hyperfine-commits.py *)

runs == 5

\* Exit code of a Python process ended by an uncaught exception.
UncaughtExceptionExit == 1

\* f"{runs}" for a one-digit count.
FormatInt(n) ==
    CASE n = 0 -> "0" [] n = 1 -> "1" [] n = 2 -> "2" [] n = 3 -> "3"
      [] n = 4 -> "4" [] n = 5 -> "5" [] n = 6 -> "6" [] n = 7 -> "7"
      [] n = 8 -> "8" [] n = 9 -> "9"

\* sorted(...) with no effect: the entries in os.listdir order.
Sorted_unsorted(l) == l

\* sorted(...): insertion of each element after the elements not greater.
RECURSIVE Insert(_, _)
Insert(sortedSeq, e) ==
    IF sortedSeq = <<>> THEN <<e>>
    ELSE IF StrLess(e, Head(sortedSeq)) THEN <<e>> \o sortedSeq
    ELSE <<Head(sortedSeq)>> \o Insert(Tail(sortedSeq), e)

RECURSIVE Sorted(_)
Sorted(l) ==
    IF l = <<>> THEN <<>> ELSE Insert(Sorted(SubSeq(l, 1, Len(l) - 1)), l[Len(l)])

\* f"{args.executables_dir}/{executable} < {args.input_file} > /dev/null"
CommandString(dir, executable, input_file) ==
    dir \o <<"/">> \o executable \o <<" ", "<", " ">> \o input_file
        \o <<" ", ">", " ", "/", "d", "e", "v", "/", "n", "u", "l", "l">>

\* Lines 13-20: the fixed options.
FixedOptions(output_file) ==
    <<"hyperfine", "--runs", FormatInt(runs), "--export-json", output_file,
      "--ignore-failure">>

RunnerIdle ==
    /\ args = [input_file |-> <<>>, executables_dir |-> <<>>, output_file |-> ""]
    /\ listing = <<>>
    /\ hyperfine_args = <<>>
    /\ calls = <<>>
    /\ returncode = -1
    /\ exitStatus = -1
    /\ rpc = "idle"

RunnerInit ==
    /\ args \in { [input_file |-> f, executables_dir |-> d, output_file |-> "out.json"] :
                    f \in InputFiles, d \in ExecutableDirs }
    /\ listing \in Listings
    /\ hyperfine_args = <<>>
    /\ calls = <<>>
    /\ returncode = -1
    /\ exitStatus = -1
    /\ rpc = "start"

\* Lines 12-24: the fixed options, then one command string per directory entry.
BuildArgs ==
    /\ rpc = "start"
    /\ hyperfine_args' =
           FixedOptions(args.output_file)
           \o [k \in 1..Len(listing) |->
                  CommandString(args.executables_dir, Sorted(listing)[k],
                                args.input_file)]
    /\ rpc' = "call"
    /\ UNCHANGED <<args, listing, calls, returncode, exitStatus>>
    /\ UNCHANGED transVars

\* subprocess.call: the tool's exit code is returned and dropped.
CheckCall_unchecked ==
    /\ rpc = "call"
    /\ \E rc \in ToolExitCodes :
          /\ calls' = Append(calls, hyperfine_args)
          /\ returncode' = rc
          /\ exitStatus' = 0
    /\ rpc' = "done"
    /\ UNCHANGED <<args, listing, hyperfine_args>>
    /\ UNCHANGED transVars

\* Line 25: subprocess.check_call runs the tool and waits for it; exit code 0
\* returns and the script ends normally, any other raises CalledProcessError,
\* which nothing catches.
CheckCall ==
    /\ rpc = "call"
    /\ \E rc \in ToolExitCodes :
          /\ calls' = Append(calls, hyperfine_args)
          /\ returncode' = rc
          /\ exitStatus' = IF rc = 0 THEN 0 ELSE UncaughtExceptionExit
    /\ rpc' = "done"
    /\ UNCHANGED <<args, listing, hyperfine_args>>
    /\ UNCHANGED transVars

-----------------------------------------------------------------------------
(* Specifications *)

\* The Transformer on an arbitrary report and history.
Init == TransformerInit /\ RunnerIdle
Next ==
    \/ OpenRepo
    \/ LoadInput
    \/ MatchRow
    \/ EmitTime
    \/ Dump
Spec == Init /\ [][Next]_vars

\* The Runner on an arbitrary directory.
InitRunner == RunnerInit /\ TransformerIdle
NextRunner ==
    \/ BuildArgs
    \/ CheckCall
SpecRunner == InitRunner /\ [][NextRunner]_vars

-----------------------------------------------------------------------------
(* Vocabulary of the properties *)

\* The report the Transformer was given.
Results == stdin.results

TimesOf(row) == IF "times" \in DOMAIN row THEN row["times"] ELSE <<>>

\* <<i, j>> for every sample j of every entry i among the first n entries, in
\* the order of the report.
RECURSIVE Flat(_)
Flat(n) ==
    IF n = 0 THEN <<>>
    ELSE Flat(n - 1) \o [j \in 1..Len(TimesOf(Results[n])) |-> <<n, j>>]

AllSamples == Flat(Len(Results))

RECURSIVE SumTimes(_)
SumTimes(n) == IF n = 0 THEN 0 ELSE SumTimes(n - 1) + Len(TimesOf(Results[n]))

\* The label pattern [<directory>/]<sequence>-<revision> ..., read off a
\* command s: d is the length of "<directory>/" (0 without it; a directory
\* component is not empty and holds no "/"), n the number of sequence digits,
\* h the number of revision hex characters.
DirectoryOptions(s) ==
    {0} \cup { d \in 2..Len(s) : s[d] = "/" /\ \A k \in 1..(d - 1) : s[k] # "/" }

Readings(s) ==
    { r \in [d : DirectoryOptions(s), n : 1..Len(s), h : 1..Len(s)] :
        /\ r.d + r.n + r.h + 2 <= Len(s)
        /\ \A k \in (r.d + 1)..(r.d + r.n) : s[k] \in Digits
        /\ s[r.d + r.n + 1] = "-"
        /\ \A k \in (r.d + r.n + 2)..(r.d + r.n + 1 + r.h) : s[k] \in HexChars
        /\ s[r.d + r.n + r.h + 2] = " " }

\* "<sequence>-<revision>" and "<revision>" of a reading, as they stand in s.
LabelOf(s, r) == Slice(s, r.d + 1, r.d + r.n + 1 + r.h)
RevisionOf(s, r) == Slice(s, r.d + r.n + 2, r.d + r.n + 1 + r.h)

\* The reading with the directory component when there are two.
FirstReading(s) ==
    CHOOSE r \in Readings(s) : \A q \in Readings(s) : q.d <= r.d

MatchesPattern(row) == "command" \in DOMAIN row /\ Readings(row["command"]) # {}

Terminated == tpc \in {"done", "failed"}

-----------------------------------------------------------------------------
(* Properties of the Transformer, checked under Spec *)

\* C1: when every command matches the label pattern (and every entry has a
\* times list), the Transformer ends by writing one array that has as many
\* records as there are samples in all the times lists together.
C1_OutputLength ==
    (/\ Terminated
     /\ \A i \in 1..Len(Results) :
           MatchesPattern(Results[i]) /\ "times" \in DOMAIN Results[i])
    => /\ tpc = "done"
       /\ Len(stdout) = 1
       /\ Len(stdout[1]) = SumTimes(Len(Results))

\* A run over two entries, one of them with no samples, that wrote records.
C1_Witness ==
    /\ tpc = "done"
    /\ Len(Results) = 2
    /\ \E i \in 1..2 : "times" \in DOMAIN Results[i] /\ Results[i]["times"] = <<>>
    /\ Len(stdout[1]) >= 2

\* C2: a record's message is the empty string when the revision of its
\* entry's label is not the id of a commit of the history, and that commit's
\* log message when it is.
C2_Message ==
    LET all == AllSamples IN
    \A k \in 1..Len(output) :
        LET cmd == Results[all[k][1]]["command"]
            rev == RevisionOf(cmd, FirstReading(cmd))
            found == { c \in 1..Len(history) : history[c].id = rev }
        IN  IF found = {}
            THEN output[k]["message"] = ""
            ELSE \A c \in found : output[k]["message"] = history[c].message

\* A finished run with a record of a known and a record of an unknown revision.
C2_Witness ==
    /\ tpc = "done"
    /\ \E k, l \in 1..Len(output) :
          /\ output[k]["message"] = ""
          /\ output[l]["message"] = "Fix the pager\n"

C5_FailsOnNoMatch ==
    \A i \in 1..Len(Results) :
        ("command" \in DOMAIN Results[i] /\ Readings(Results[i]["command"]) = {})
        => /\ tpc # "done"
           /\ row_i <= i
           /\ ~(tpc = "time" /\ row_i = i)
           /\ (Terminated /\ row_i = i => tpc = "failed" /\ error = "AttributeError")

\* The run failed at a second entry that does not match and has no samples,
\* after records of the first entry were built.
C5_Witness ==
    /\ tpc = "failed"
    /\ error = "AttributeError"
    /\ row_i = 2
    /\ "times" \in DOMAIN Results[2]
    /\ Results[2]["times"] = <<>>
    /\ Len(output) > 0

\* C6 (as claimed): a record has every field of its entry but times, with the
\* entry's value, has no times, has time = its sample, has commit and message;
\* and the entry is left as it was.
C6_AllFieldsKept ==
    LET all == AllSamples IN
    /\ tpc \notin {"repo", "load"} => input = stdin
    /\ \A k \in 1..Len(output) :
          LET row == Results[all[k][1]]
              rec == output[k]
          IN  /\ \A f \in DOMAIN row \ {"times"} :
                    f \in DOMAIN rec /\ rec[f] = row[f]
              /\ "times" \notin DOMAIN rec
              /\ {"time", "commit", "message"} \subseteq DOMAIN rec
              /\ rec["time"] = row["times"][all[k][2]]

\* C6 (amended): the same for every field of the entry other than times, time,
\* commit and message; the record has exactly the entry's fields without times
\* and with time, commit and message, and time is the sample.
C6_OtherFieldsKept ==
    LET all == AllSamples IN
    /\ tpc \notin {"repo", "load"} => input = stdin
    /\ \A k \in 1..Len(output) :
          LET row == Results[all[k][1]]
              rec == output[k]
          IN  /\ \A f \in DOMAIN row \ {"times", "time", "commit", "message"} :
                    f \in DOMAIN rec /\ rec[f] = row[f]
              /\ DOMAIN rec =
                    (DOMAIN row \ {"times"}) \cup {"time", "commit", "message"}
              /\ rec["time"] = row["times"][all[k][2]]

\* A finished run with a record of an entry that had its own time field.
C6_Witness ==
    /\ tpc = "done"
    /\ \E k \in 1..Len(output) :
          /\ "time" \in DOMAIN Results[AllSamples[k][1]]
          /\ "mean" \in DOMAIN output[k]

\* C9: nothing is on standard output before every entry has been processed,
\* and what is written then is the whole list at once; a failed run has
\* written nothing.
C9_AllOrNothing ==
    /\ stdout # <<>> =>
          /\ tpc = "done"
          /\ row_i = Len(Results) + 1
          /\ stdout = <<output>>
    /\ tpc = "failed" => stdout = <<>>

\* A run that failed on a missing times field after building records.
C9_Witness ==
    /\ tpc = "failed"
    /\ error = "KeyError"
    /\ row_i = 2
    /\ "times" \notin DOMAIN Results[2]
    /\ Len(output) > 0
    /\ stdout = <<>>

\* C10: the k-th record is the record of the k-th sample of the concatenation
\* of the times lists, in the order of the report.
C10_InputOrder ==
    LET all == AllSamples IN
    /\ Len(output) <= Len(all)
    /\ \A k \in 1..Len(output) :
          LET row == Results[all[k][1]]
          IN  /\ output[k]["command"] = row["command"]
              /\ output[k]["time"] = row["times"][all[k][2]]
    /\ tpc = "done" => Len(stdout[1]) = Len(all)

\* A finished run over two entries with different commands and samples each.
C10_Witness ==
    /\ tpc = "done"
    /\ Len(Results) = 2
    /\ Results[1]["command"] # Results[2]["command"]
    /\ Len(Results[1]["times"]) = 2
    /\ Len(Results[2]["times"]) >= 1

-----------------------------------------------------------------------------
(* Properties of the Runner, checked under SpecRunner *)

\* The command strings of an argument list: what follows the fixed options.
CommandsOf(argv) ==
    SubSeq(argv, Len(FixedOptions(args.output_file)) + 1, Len(argv))

\* C3 (as claimed): the Runner exits with the exit code of the tool.
C3_ExitMirrorsTool ==
    rpc = "done" => exitStatus = returncode

\* C3 (amended): the Runner exits 0 when the tool exits 0, and 1 when the tool
\* exits with any other code.
C3_ExitZeroOrOne ==
    rpc = "done" =>
        /\ returncode = 0 => exitStatus = 0
        /\ returncode # 0 => exitStatus = 1

\* The tool exited with 2 and the Runner with 1.
C3_Witness ==
    /\ rpc = "done"
    /\ returncode = 2
    /\ exitStatus = 1

\* C7: the tool is invoked once, never before the list is complete; the
\* invocation is the fixed options followed by one command string per
\* directory entry, the k-th being that of the entry with k - 1 smaller ones.
C7_OneInvocationSorted ==
    /\ rpc # "done" => calls = <<>>
    /\ rpc = "done" =>
          /\ Len(calls) = 1
          /\ SubSeq(calls[1], 1, 6) =
                <<"hyperfine", "--runs", "5", "--export-json", args.output_file,
                  "--ignore-failure">>
          /\ Len(CommandsOf(calls[1])) = Len(listing)
          /\ \A k \in 1..Len(listing) :
                \E e \in 1..Len(listing) :
                    /\ Cardinality({ x \in 1..Len(listing) :
                                       StrLess(listing[x], listing[e]) }) = k - 1
                    /\ CommandsOf(calls[1])[k] =
                          args.executables_dir \o <<"/">> \o listing[e]
                          \o <<" ", "<", " ">> \o args.input_file
                          \o <<" ", ">", " ", "/", "d", "e", "v", "/",
                               "n", "u", "l", "l">>

\* The tool was invoked for a directory listed in descending order.
C7_Witness ==
    /\ rpc = "done"
    /\ Len(listing) = 2
    /\ StrLess(listing[2], listing[1])

\* C8 (as claimed): every command string the Runner builds is matched by the
\* Transformer's pattern, with the sequence and revision of its executable.
C8_PipelineCompatible ==
    rpc \in {"call", "done"} =>
        \A k \in 1..Len(listing) :
            LET m == ReMatch(CommandsOf(hyperfine_args)[k])
            IN  /\ m.matched
                /\ CommitLabel(m.num, m.commit) = Sorted(listing)[k]

====
